---- MODULE Spec2Model ----
(***************************************************************************)
(* Invoice row extraction and reconciliation (web.py).                     *)
(*                                                                         *)
(* A token is a sequence of characters (one-character strings; "sup2" is   *)
(* the single character U+00B2).  Money is counted in thousandths of a     *)
(* dollar (exact decimal arithmetic; IEEE-754 rounding is not modelled).   *)
(* Python's None is the empty tuple and a present value v is <<v>>.        *)
(* Indices into token sequences are 0-based as in the source.              *)
(***************************************************************************)
EXTENDS Integers, Sequences, FiniteSets, TLC

None == <<>>
Some(v) == <<v>>
Min(a, b) == IF a <= b THEN a ELSE b

(***************************************************************************)
(* Characters                                                              *)
(***************************************************************************)
Digits == {"0", "1", "2", "3", "4", "5", "6", "7", "8", "9"}

DigitVal(c) ==
    CASE c = "0" -> 0 [] c = "1" -> 1 [] c = "2" -> 2 [] c = "3" -> 3
      [] c = "4" -> 4 [] c = "5" -> 5 [] c = "6" -> 6 [] c = "7" -> 7
      [] c = "8" -> 8 [] c = "9" -> 9

\* characters for which str.isdigit() holds but which int() and \d reject
SuperDigits == {"sup2"}

StripChars == {"[", "]", "{", "}", "(", ")", ",", ";", ":"}

LowerChar(c) ==
    CASE c = "A" -> "a" [] c = "B" -> "b" [] c = "C" -> "c" [] c = "D" -> "d"
      [] c = "E" -> "e" [] c = "F" -> "f" [] c = "G" -> "g" [] c = "H" -> "h"
      [] c = "I" -> "i" [] c = "J" -> "j" [] c = "K" -> "k" [] c = "L" -> "l"
      [] c = "M" -> "m" [] c = "N" -> "n" [] c = "O" -> "o" [] c = "P" -> "p"
      [] c = "Q" -> "q" [] c = "R" -> "r" [] c = "S" -> "s" [] c = "T" -> "t"
      [] c = "U" -> "u" [] c = "V" -> "v" [] c = "W" -> "w" [] c = "X" -> "x"
      [] c = "Y" -> "y" [] c = "Z" -> "z" [] OTHER -> c

Lower(s) == [k \in 1..Len(s) |-> LowerChar(s[k])]

StartsWith(s, p) == Len(s) >= Len(p) /\ SubSeq(s, 1, Len(p)) = p

AllDigits(s) == \A k \in 1..Len(s) : s[k] \in Digits

\* int() of a digit string; Python integers are unbounded, the value is
\* saturated at SatVal, above every number it is compared with
SatVal == 1000000

RECURSIVE IntVal(_)
IntVal(s) ==
    IF Len(s) = 0 THEN 0
    ELSE Min(SatVal, IntVal(SubSeq(s, 1, Len(s) - 1)) * 10 + DigitVal(s[Len(s)]))

\* str.isdigit(): non-empty and every character is a digit character
IsDigitStr(s) == Len(s) > 0 /\ \A k \in 1..Len(s) : s[k] \in Digits \cup SuperDigits

(***************************************************************************)
(* Regex definitions                                                       *)
(***************************************************************************)
\* first position of character c in s, 0 when absent
FirstIndexOf(s, c) ==
    IF \E k \in 1..Len(s) : s[k] = c
    THEN CHOOSE k \in 1..Len(s) : s[k] = c /\ \A m \in 1..(k - 1) : s[m] # c
    ELSE 0

\* str.split("/")
RECURSIVE SplitSlash(_)
SplitSlash(s) ==
    LET p == FirstIndexOf(s, "/") IN
    IF p = 0 THEN <<s>>
    ELSE <<SubSeq(s, 1, p - 1)>> \o SplitSlash(SubSeq(s, p + 1, Len(s)))

\* ^\d{4}/\d{1,2}/\d{1,2}$
DATE_RE(t) ==
    LET parts == SplitSlash(t) IN
    /\ Len(parts) = 3
    /\ Len(parts[1]) = 4 /\ AllDigits(parts[1])
    /\ Len(parts[2]) \in 1..2 /\ AllDigits(parts[2])
    /\ Len(parts[3]) \in 1..2 /\ AllDigits(parts[3])

\* ^\d{4}$
TXN_RE(t) == Len(t) = 4 /\ AllDigits(t)

\* ^\d{10,}(?:_\d+)?$
ORDER_LONG_RE(t) ==
    LET p == FirstIndexOf(t, "_") IN
    IF p = 0 THEN Len(t) >= 10 /\ AllDigits(t)
    ELSE /\ p - 1 >= 10 /\ AllDigits(SubSeq(t, 1, p - 1))
         /\ Len(t) - p >= 1 /\ AllDigits(SubSeq(t, p + 1, Len(t)))

\* ^\d+(?:\.\d{1,2})?$
NUM_RE(t) ==
    LET p == FirstIndexOf(t, ".") IN
    IF p = 0 THEN Len(t) >= 1 /\ AllDigits(t)
    ELSE /\ p - 1 >= 1 /\ AllDigits(SubSeq(t, 1, p - 1))
         /\ Len(t) - p \in 1..2 /\ AllDigits(SubSeq(t, p + 1, Len(t)))

SINGLE_COUNTRIES ==
    { <<"c","a","n","a","d","a">>, <<"a","u","s","t","r","a","l","i","a">>,
      <<"m","e","x","i","c","o">>, <<"c","h","i","n","a">>,
      <<"f","r","a","n","c","e">>, <<"g","e","r","m","a","n","y">>,
      <<"i","t","a","l","y">>, <<"s","p","a","i","n">>, <<"j","a","p","a","n">>,
      <<"s","i","n","g","a","p","o","r","e">>, <<"u","a","e">>,
      <<"p","a","k","i","s","t","a","n">>, <<"u","k">> }

(***************************************************************************)
(* Helper functions                                                        *)
(***************************************************************************)
RECURSIVE LStrip(_)
LStrip(s) ==
    IF Len(s) > 0 /\ s[1] \in StripChars THEN LStrip(Tail(s)) ELSE s

RECURSIVE RStrip(_)
RStrip(s) ==
    IF Len(s) > 0 /\ s[Len(s)] \in StripChars
    THEN RStrip(SubSeq(s, 1, Len(s) - 1)) ELSE s

\* tokens hold no whitespace, so str.strip() leaves them as they are
clean(t) == RStrip(LStrip(t))

IsLeap(y) == (y % 4 = 0) /\ ((y % 100 # 0) \/ (y % 400 = 0))

DaysInMonth(y, m) ==
    CASE m \in {1, 3, 5, 7, 8, 10, 12} -> 31
      [] m \in {4, 6, 9, 11} -> 30
      [] m = 2 -> IF IsLeap(y) THEN 29 ELSE 28

RECURSIVE DaysBeforeMonth(_, _)
DaysBeforeMonth(y, m) ==
    IF m <= 1 THEN 0 ELSE DaysBeforeMonth(y, m - 1) + DaysInMonth(y, m - 1)

\* the ValueError message of date(y, m, d), "" when the date is valid
DateError(y, m, d) ==
    IF ~(1 <= y /\ y <= 9999) THEN "year is out of range"
    ELSE IF ~(1 <= m /\ m <= 12) THEN "month must be in 1..12"
    ELSE IF ~(1 <= d /\ d <= DaysInMonth(y, m)) THEN "day is out of range for month"
    ELSE ""

\* date.toordinal(): days since 0001-01-01, plus one
Ordinal(y, m, d) ==
    (y - 1) * 365 + ((y - 1) \div 4) - ((y - 1) \div 100) + ((y - 1) \div 400)
        + DaysBeforeMonth(y, m) + d

\* [err |-> message or "", y, m, d]
parse_ymd_to_date(s) ==
    LET parts == SplitSlash(s)
        y == IntVal(parts[1])
        m == IntVal(parts[2])
        d == IntVal(parts[3])
    IN  [err |-> DateError(y, m, d), y |-> y, m |-> m, d |-> d]

\* a serial counted from 1900-01-01
excel_serial_from_1900(dt) == Ordinal(dt.y, dt.m, dt.d) - Ordinal(1900, 1, 1)

excel_serial_from_date(dt) == Ordinal(dt.y, dt.m, dt.d) - Ordinal(1899, 12, 30)

Tok(tokens, i) == tokens[i + 1]

\* [ok, cend]
is_country_at(tokens, i) ==
    LET t == Lower(clean(Tok(tokens, i))) IN
    IF /\ t = <<"u","n","i","t","e","d">>
       /\ i + 1 < Len(tokens)
       /\ Lower(clean(Tok(tokens, i + 1))) = <<"s","t","a","t","e","s">>
    THEN [ok |-> TRUE, cend |-> i + 1]
    ELSE IF t \in SINGLE_COUNTRIES THEN [ok |-> TRUE, cend |-> i]
    ELSE [ok |-> FALSE, cend |-> -1]

is_row_start(tokens, i) ==
    IF i + 2 >= Len(tokens) THEN FALSE
    ELSE /\ ORDER_LONG_RE(clean(Tok(tokens, i)))
         /\ TXN_RE(clean(Tok(tokens, i + 1)))
         /\ DATE_RE(clean(Tok(tokens, i + 2)))

\* a quantity test without the upper limit
QtyAtAnyInt(tokens, j) ==
    LET t == clean(Tok(tokens, j)) IN
    IF IsDigitStr(t)
    THEN IF ~AllDigits(t)
         THEN [err |-> "invalid literal for int() with base 10", val |-> None]
         ELSE IF 1 <= IntVal(t)
              THEN [err |-> "", val |-> Some(IntVal(t))]
              ELSE [err |-> "", val |-> None]
    ELSE [err |-> "", val |-> None]

\* the result of the quantity test at index j: [err, val]
QtyAt(tokens, j) ==
    LET t == clean(Tok(tokens, j)) IN
    IF IsDigitStr(t)
    THEN IF ~AllDigits(t)
         THEN [err |-> "invalid literal for int() with base 10", val |-> None]
         ELSE IF 1 <= IntVal(t) /\ IntVal(t) <= 999
              THEN [err |-> "", val |-> Some(IntVal(t))]
              ELSE [err |-> "", val |-> None]
    ELSE [err |-> "", val |-> None]

\* the loop of qty_before_country over the indices hi, hi - 1, .., lo + 1, in
\* that order, stopping at the first return or raise (the range is halved to
\* keep the evaluation shallow)
RECURSIVE QtyScan(_, _, _)
QtyScan(tokens, hi, lo) ==
    IF hi <= lo THEN [err |-> "", val |-> None]
    ELSE IF hi = lo + 1 THEN QtyAt(tokens, hi)
    ELSE LET mid == (hi + lo) \div 2
             u == QtyScan(tokens, hi, mid)
         IN  IF u.err # "" \/ u.val # None THEN u ELSE QtyScan(tokens, mid, lo)

\* the scan run forward from the row start: the farthest quantity wins
RECURSIVE QtyScanForward(_, _, _)
QtyScanForward(tokens, lo, hi) ==
    IF lo >= hi THEN [err |-> "", val |-> None]
    ELSE IF lo + 1 = hi THEN QtyAt(tokens, lo)
    ELSE LET mid == (hi + lo) \div 2
             u == QtyScanForward(tokens, lo, mid)
         IN  IF u.err # "" \/ u.val # None THEN u
             ELSE QtyScanForward(tokens, mid, hi)

qty_from_row_start(tokens, row_start, country_pos) ==
    QtyScanForward(tokens, row_start + 1, country_pos)

qty_before_country(tokens, row_start, country_pos) ==
    QtyScan(tokens, country_pos - 1, row_start)

MoneyScale == 1000

\* float() of a token that matches NUM_RE, in 1/MoneyScale units
FloatVal(t) ==
    LET p == FirstIndexOf(t, ".")
        ip == IF p = 0 THEN t ELSE SubSeq(t, 1, p - 1)
        fp == IF p = 0 THEN <<>> ELSE SubSeq(t, p + 1, Len(t))
        frac == IF Len(fp) = 0 THEN 0
                ELSE IF Len(fp) = 1 THEN DigitVal(fp[1]) * 100
                ELSE DigitVal(fp[1]) * 100 + DigitVal(fp[2]) * 10
    IN  IntVal(ip) * MoneyScale + frac

\* a price test that lets the bare integers below 10 through
looks_like_price_any_int(tok) ==
    LET t == clean(tok) IN
    IF TXN_RE(t) THEN FALSE
    ELSE IF ~NUM_RE(t) THEN FALSE
    ELSE IF ORDER_LONG_RE(t) THEN FALSE
    ELSE LET v == FloatVal(t) IN
         IF v <= 0 \/ v > 100000 * MoneyScale THEN FALSE
         ELSE TRUE

looks_like_price(tok) ==
    LET t == clean(tok) IN
    IF TXN_RE(t) THEN FALSE
    ELSE IF ~NUM_RE(t) THEN FALSE
    ELSE IF ORDER_LONG_RE(t) THEN FALSE
    ELSE LET v == FloatVal(t) IN
         IF FirstIndexOf(t, ".") = 0 /\ v < 10 * MoneyScale THEN FALSE
         ELSE IF v <= 0 \/ v > 100000 * MoneyScale THEN FALSE
         ELSE TRUE

\* the loop of last_price_after_country over the indices j .. row_end - 1, in
\* that order, with the value so far (the range is halved to keep the
\* evaluation shallow)
RECURSIVE PriceScan(_, _, _, _)
PriceScan(tokens, j, row_end, last) ==
    IF j >= row_end THEN last
    ELSE IF j + 1 = row_end
    THEN IF looks_like_price(Tok(tokens, j))
         THEN Some(FloatVal(clean(Tok(tokens, j)))) ELSE last
    ELSE LET mid == (j + row_end) \div 2 IN
         PriceScan(tokens, mid, row_end, PriceScan(tokens, j, mid, last))

\* the price scan over the whole document prefix, not only after the country
last_price_in_row(tokens, start, row_end) ==
    PriceScan(tokens, 0, row_end, None)

\* the price scan that keeps the first match
RECURSIVE FirstPriceScan(_, _, _)
FirstPriceScan(tokens, j, row_end) ==
    IF j >= row_end THEN None
    ELSE IF j + 1 = row_end
    THEN IF looks_like_price(Tok(tokens, j))
         THEN Some(FloatVal(clean(Tok(tokens, j)))) ELSE None
    ELSE LET mid == (j + row_end) \div 2
             u == FirstPriceScan(tokens, j, mid)
         IN  IF u # None THEN u ELSE FirstPriceScan(tokens, mid, row_end)

first_price_after_country(tokens, start, row_end) ==
    FirstPriceScan(tokens, start, row_end)

last_price_after_country(tokens, start, row_end) ==
    PriceScan(tokens, start, row_end, None)

TotalMarker == <<"t","o","t","a","l","(","u","s","d">>

IsTotalMarker(tok) == StartsWith(Lower(clean(tok)), TotalMarker)

\* no truncation at all
stop_never(tokens) == tokens

stop_at_total_usd(tokens) ==
    IF \E k \in 1..Len(tokens) : IsTotalMarker(tokens[k])
    THEN LET k == CHOOSE k \in 1..Len(tokens) :
                    /\ IsTotalMarker(tokens[k])
                    /\ \A m \in 1..(k - 1) : ~IsTotalMarker(tokens[m])
         IN  SubSeq(tokens, 1, k - 1)
    ELSE tokens

DigitChar(v) ==
    CASE v = 0 -> "0" [] v = 1 -> "1" [] v = 2 -> "2" [] v = 3 -> "3"
      [] v = 4 -> "4" [] v = 5 -> "5" [] v = 6 -> "6" [] v = 7 -> "7"
      [] v = 8 -> "8" [] v = 9 -> "9"

RECURSIVE IntStr(_)
IntStr(v) == IF v < 10 THEN <<DigitChar(v)>> ELSE IntStr(v \div 10) \o <<DigitChar(v % 10)>>

\* f"{float(num):.2f}".replace(".", ","); num is a cost, a multiple of 0.01
to_dutch_text(num) ==
    IF num = None THEN <<>>
    ELSE LET cents == num[1] \div (MoneyScale \div 100) IN
         IntStr(cents \div 100) \o <<",">>
            \o <<DigitChar((cents % 100) \div 10), DigitChar(cents % 10)>>

(***************************************************************************)
(* Core parsing logic: one iteration of the while loop of parse_pdf_tokens *)
(***************************************************************************)
RowCap == 320

\* Python truthiness of an optional integer
Truthy(x) == x # None /\ x[1] # 0

\* the inner loop that looks for the next row start over the indices
\* j .. row_end - 1, in that order: the first row start, else row_end (the
\* range is halved to keep the evaluation shallow)
RECURSIVE RowEndScan(_, _, _)
RowEndScan(tokens, j, row_end) ==
    IF j >= row_end THEN row_end
    ELSE IF j + 1 = row_end THEN (IF is_row_start(tokens, j) THEN j ELSE row_end)
    ELSE LET mid == (j + row_end) \div 2
             u == RowEndScan(tokens, j, mid)
         IN  IF u < mid THEN u
             ELSE RowEndScan(tokens, mid, row_end)

\* the inner loop that looks for the first country over the indices
\* k .. row_end - 1, in that order: [pos, cend]
RECURSIVE CountryScan(_, _, _)
CountryScan(tokens, k, row_end) ==
    IF k >= row_end THEN [pos |-> -1, cend |-> -1]
    ELSE IF k + 1 = row_end
    THEN LET c == is_country_at(tokens, k) IN
         IF c.ok THEN [pos |-> k, cend |-> c.cend] ELSE [pos |-> -1, cend |-> -1]
    ELSE LET mid == (k + row_end) \div 2
             u == CountryScan(tokens, k, mid)
         IN  IF u.pos # -1 THEN u ELSE CountryScan(tokens, mid, row_end)

NoScan(msg) ==
    [err |-> msg, start |-> -1, row_end |-> -1, country_pos |-> -1,
     country_end |-> -1, qty |-> None, cost |-> None, row |-> None]

\* the date serial of a cleaned date token: [err, val], val None when the
\* token is no date and err the message of the ValueError date() raises
date_serial_of(date_s) ==
    LET dt == IF DATE_RE(date_s) THEN Some(parse_ymd_to_date(date_s)) ELSE None IN
    IF dt # None /\ dt[1].err # "" THEN [err |-> dt[1].err, val |-> None]
    ELSE [err |-> "",
          val |-> IF dt # None THEN Some(excel_serial_from_date(dt[1])) ELSE None]

\* a window that runs to the end of the document
WindowNoCap(n, i) == n

\* the largest row end of a row start at i in n tokens
WindowCap(n, i) == Min(n, i + RowCap)

\* the body of the while loop at a row start i: the locals it computes, the
\* row it appends (None when the row is dropped), or the error it raises
RowAt(tokens, i, file_name) ==
    LET n == Len(tokens)
        txn_s == clean(Tok(tokens, i + 1))
        date_s == clean(Tok(tokens, i + 2))
        order4 == IF TXN_RE(txn_s) THEN Some(IntVal(txn_s)) ELSE None
        ds == date_serial_of(date_s)
    IN
    IF ds.err # "" THEN NoScan(ds.err)
    ELSE
    LET date_serial == ds.val
        row_end == RowEndScan(tokens, i + 3, WindowCap(n, i))
        c == CountryScan(tokens, i + 3, row_end)
        q == IF c.pos # -1 THEN qty_before_country(tokens, i, c.pos)
             ELSE [err |-> "", val |-> None]
        cost == IF c.pos # -1
                THEN last_price_after_country(tokens, c.cend + 1, row_end)
                ELSE None
    IN
    IF q.err # "" THEN NoScan(q.err)
    ELSE [err |-> "", start |-> i, row_end |-> row_end,
          country_pos |-> c.pos, country_end |-> c.cend,
          qty |-> q.val, cost |-> cost,
          row |-> IF Truthy(order4) /\ Truthy(date_serial) /\ cost # None
                  THEN Some([File_Name |-> file_name,
                             DateSerial |-> date_serial[1],
                             Order |-> order4[1],
                             Qty |-> IF Truthy(q.val) THEN q.val ELSE None,
                             Cost |-> cost[1],
                             Cost_NL |-> to_dutch_text(cost)])
                  ELSE None]

\* the while loop from cursor i with the rows so far: [err, rows]
RECURSIVE ParseLoop(_, _, _, _)
ParseLoop(tokens, i, rows, file_name) ==
    IF i >= Len(tokens) THEN [err |-> "", rows |-> rows]
    ELSE IF ~is_row_start(tokens, i) THEN ParseLoop(tokens, i + 1, rows, file_name)
    ELSE LET r == RowAt(tokens, i, file_name) IN
         IF r.err # "" THEN [err |-> r.err, rows |-> <<>>]
         ELSE ParseLoop(tokens, r.row_end, rows \o r.row, file_name)

\* parse_pdf_tokens as a function of its arguments: [err, rows]
parse_pdf_tokens(tokens, file_name) ==
    ParseLoop(stop_at_total_usd(tokens), 0, <<>>, file_name)

(***************************************************************************)
(* Tokenizer output and the total extractor                                *)
(***************************************************************************)
\* the text the tokens were split from: the tokens joined by whitespace
RECURSIVE FullText(_)
FullText(tokens) ==
    IF Len(tokens) = 0 THEN <<>>
    ELSE IF Len(tokens) = 1 THEN tokens[1]
    ELSE LET mid == Len(tokens) \div 2 IN
         FullText(SubSeq(tokens, 1, mid)) \o <<" ">>
            \o FullText(SubSeq(tokens, mid + 1, Len(tokens)))

\* \s* from position p: the first position that holds no whitespace
RECURSIVE SkipWs(_, _)
SkipWs(s, p) == IF p <= Len(s) /\ s[p] = " " THEN SkipWs(s, p + 1) ELSE p

\* [\d,]* from position p
RECURSIVE SkipNum(_, _)
SkipNum(s, p) ==
    IF p <= Len(s) /\ s[p] \in Digits \cup {","} THEN SkipNum(s, p + 1) ELSE p

\* \d* from position p
RECURSIVE SkipDigits(_, _)
SkipDigits(s, p) == IF p <= Len(s) /\ s[p] \in Digits THEN SkipDigits(s, p + 1) ELSE p

\* a literal, ignoring case, at position p: the position after it, 0 on failure
Lit(s, p, lit) ==
    IF p > 0 /\ p + Len(lit) - 1 <= Len(s) /\ Lower(SubSeq(s, p, p + Len(lit) - 1)) = lit
    THEN p + Len(lit) ELSE 0

Ws(s, p) == IF p = 0 THEN 0 ELSE SkipWs(s, p)

\* [$]?\s*([\d,]+(?:\.\d+)?) from position p: the matched number, None on failure
NumberAt(s, p) ==
    IF p = 0 THEN None
    ELSE LET a == SkipWs(s, IF p <= Len(s) /\ s[p] = "$" THEN p + 1 ELSE p)
             b == SkipNum(s, a)
             e == IF b <= Len(s) /\ s[b] = "." /\ SkipDigits(s, b + 1) > b + 1
                  THEN SkipDigits(s, b + 1) ELSE b
         IN  IF b = a THEN None ELSE Some([ip |-> SubSeq(s, a, b - 1),
                                           fp |-> SubSeq(s, b + 1, e - 1)])

\* TOTAL_USD_RE anchored at position p
TOTAL_USD_RE(s, p) ==
    NumberAt(s, Ws(s, Lit(s, Ws(s, Lit(s, Ws(s, Lit(s, Ws(s, Lit(s, Ws(s,
        Lit(s, p, <<"t","o","t","a","l">>)), <<"(">>)), <<"u","s","d">>)),
        <<")">>)), <<":">>)))

\* TOTAL_AMOUNT_RE anchored at position p
TOTAL_AMOUNT_RE(s, p) ==
    LET a == Lit(s, p, <<"t","o","t","a","l">>)
        b == Ws(s, a)
    IN  IF a = 0 \/ b = a THEN None
        ELSE NumberAt(s, Ws(s, Lit(s, b, <<"a","m","o","u","n","t">>)))

\* float(raw) of a matched number, None when float() raises ValueError
\* (fractional digits beyond the third are dropped)
TotalVal(m) ==
    LET ip == SelectSeq(m.ip, LAMBDA c : c # ",")
        fp == m.fp
        dg(k) == IF k <= Len(fp) THEN DigitVal(fp[k]) ELSE 0
    IN  IF Len(ip) = 0 /\ Len(fp) = 0 THEN None
        ELSE Some(IntVal(ip) * MoneyScale + dg(1) * 100 + dg(2) * 10 + dg(3))

extract_total_usd(full_text) ==
    IF Len(full_text) = 0 THEN None
    ELSE LET hitU == {p \in 1..Len(full_text) : TOTAL_USD_RE(full_text, p) # None}
             hitA == {p \in 1..Len(full_text) : TOTAL_AMOUNT_RE(full_text, p) # None}
             first(S) == CHOOSE p \in S : \A q \in S : p <= q
         IN  IF hitU # {} THEN TotalVal(TOTAL_USD_RE(full_text, first(hitU))[1])
             ELSE IF hitA # {} THEN TotalVal(TOTAL_AMOUNT_RE(full_text, first(hitA))[1])
             ELSE None

(***************************************************************************)
(* Input documents                                                         *)
(***************************************************************************)
T_ORDER == <<"1","2","3","4","5","6","7","8","9","0">>
T_ORDER_SFX == <<"[","1","2","3","4","5","6","7","8","9","0","1","_","2","]">>
T_TXN == <<"4","3","2","1">>
T_TXN_ZERO == <<"0","0","0","0">>
T_TXN_42 == <<"0","0","4","2">>
T_DATE == <<"2","0","2","4","/","1","/","1","5">>
T_DATE_MAR == <<"2","0","2","4","/","3","/","5">>
T_DATE_BAD == <<"2","0","2","4","/","1","3","/","4","5">>
T_DATE_FEB30 == <<"2","0","2","3","/","2","/","3","0">>
T_DATE_EPOCH == <<"1","8","9","9","/","1","2","/","3","0">>
T_CANADA == <<"c","a","n","a","d","a">>
T_UK == <<"(","U","K",")">>
T_UNITED == <<"U","n","i","t","e","d">>
T_STATES == <<"S","t","a","t","e","s",",">>
T_Q7 == <<"7">>
T_Q3 == <<"(","3",")">>
T_N99 == <<"9","9">>
T_P10 == <<"1","0",".","0","0">>
T_P250 == <<"2","5","0",".","0","0">>
T_P4999 == <<"4","9",".","9","9">>
T_NOISE == <<"W","i","d","g","e","t">>
T_SUP2 == <<"sup2">>
T_MARKER == <<"T","o","t","a","l","(","U","S","D",")",":">>
T_TOTAL == <<"T","o","t","a","l">>
T_USD == <<"(","U","S","D",")",":">>
T_AMOUNT == <<"A","M","O","U","N","T">>
T_D1000 == <<"$","1","0",".","0","0">>
T_P002 == <<"0",".","0","2">>
T_D001 == <<"$","0",".","0","1">>
T_PMAX == <<"1","0","0","0","0","0">>
T_POVER == <<"1","0","0","0","0","0",".","0","1">>
T_PZERO == <<"0",".","0","0">>
T_D10009 == <<"1","0",".","0","0","9">>

\* bounds of the enumerated inputs
MaxBody == 4
MaxTail == 2
MaxDocs == 3

SeqsUpTo(S, k) == UNION {[1..m -> S] : m \in 0..k}

Pad(k) == [m \in 1..k |-> T_NOISE]

GoodHead == <<T_ORDER, T_TXN, T_DATE>>

Heads ==
    { GoodHead,
      <<T_ORDER_SFX, T_TXN_42, T_DATE_MAR>>,
      <<T_ORDER, T_TXN_ZERO, T_DATE>>,
      <<T_ORDER, T_TXN, T_DATE_EPOCH>>,
      <<T_ORDER, T_TXN, T_DATE_BAD>>,
      <<T_ORDER, T_TXN, T_DATE_FEB30>>,
      <<T_ORDER, T_TXN, T_NOISE>> }

BodyTokens == {T_Q7, T_N99, T_CANADA, T_P10}

TailTokens == {T_UK, T_P4999, T_MARKER}

Leads ==
    { <<>>, <<T_NOISE>>,
      GoodHead \o <<T_Q3, T_CANADA, T_P250>>,
      GoodHead \o <<T_CANADA>> }

\* a character that str.isdigit() accepts and int() rejects, around the anchor
OddDocs ==
    { GoodHead \o <<T_SUP2, T_CANADA, T_P4999>>,
      GoodHead \o <<T_Q7, T_SUP2, T_CANADA, T_P4999>>,
      GoodHead \o <<T_SUP2, T_Q7, T_CANADA, T_P4999>>,
      GoodHead \o <<T_CANADA, T_SUP2, T_P4999>>,
      GoodHead \o <<T_SUP2, T_P4999>> }

\* prices at and beyond the ends of the accepted range
EdgeDocs ==
    { GoodHead \o <<T_CANADA, T_P10>> \o <<p>> : p \in {T_PMAX, T_POVER, T_PZERO, T_Q7} }


\* one row start followed by up to MaxBody tokens
OneRowDocs == {GoodHead \o b : b \in SeqsUpTo(BodyTokens, MaxBody)}

\* a two-token country, whole or cut short, between short runs of tokens
UnitedDocs ==
    {GoodHead \o a \o u \o b :
        a \in {<<>>, <<T_Q7>>},
        u \in {<<T_UNITED>>, <<T_UNITED, T_STATES>>},
        b \in SeqsUpTo({T_N99, T_P10, T_STATES}, MaxTail)}

\* a lead, then any kind of row start followed by up to MaxTail tokens
TwoRowDocs ==
    {l \o h \o b : l \in Leads, h \in Heads, b \in SeqsUpTo(TailTokens, MaxTail)}

\* rows longer than the window cap
LongDocs ==
    {GoodHead \o Pad(k) \o t :
        k \in (RowCap - 6)..(RowCap - 3),
        t \in {<<T_CANADA, T_P4999>>, <<T_UNITED, T_STATES, T_P4999>>,
               <<T_Q7, T_CANADA, T_P10>> \o GoodHead \o <<T_CANADA, T_P250>>}}

File(dir, name, err, tokens) ==
    [dir |-> dir, name |-> name, err |-> err, tokens |-> tokens]

SingleFiles ==
    {File("in", "doc.pdf", "", t) : t \in OneRowDocs \cup UnitedDocs \cup TwoRowDocs \cup OddDocs
               \cup EdgeDocs \cup LongDocs}

\* a small file system; two directories hold a file of the same name
BatchFiles ==
    { File("a", "inv.pdf", "",
           GoodHead \o <<T_Q7, T_CANADA, T_P10, T_MARKER, T_D1000>>),
      File("b", "inv.pdf", "", GoodHead \o <<T_CANADA, T_P4999>>),
      File("c", "inv.pdf", "No /Root object", <<>>),
      File("a", "date.pdf", "",
           GoodHead \o <<T_CANADA, T_P10>> \o <<T_ORDER, T_TXN, T_DATE_BAD>>),
      File("a", "near.pdf", "",
           GoodHead \o <<T_UK, T_P10, T_TOTAL, T_AMOUNT, T_D10009>>),
      File("a", "off.pdf", "",
           GoodHead \o <<T_UK, T_P002, T_TOTAL, T_USD, T_D001>>) }

Batches == {<<f>> : f \in SingleFiles} \cup SeqsUpTo(BatchFiles, MaxDocs)

(***************************************************************************)
(* convert_pdfs_to_json as a state machine                                 *)
(***************************************************************************)
VARIABLES
    pdf_paths,         \* the argument: the files, each with what extraction yields
    d,                 \* index of the file the for loop is at
    pc,                \* "for", "while" (inside parse_pdf_tokens) or "done"
    tokens,            \* parse_pdf_tokens: the truncated token list
    i,                 \* parse_pdf_tokens: the cursor
    rows,              \* parse_pdf_tokens: the rows so far
    scan,              \* the locals of each row start of the current file
    all_rows,
    totals_rows,
    log_rows,
    cogs_sum_by_file,
    request,           \* app.py: the HTTP request being served, None when idle
    response,          \* app.py: the response returned for it, None before
    arg,               \* a token handed to a token classifier, None when idle
    ret                \* what the classifier returned for it, None before

vars == <<pdf_paths, d, pc, tokens, i, rows, scan, all_rows, totals_rows,
          log_rows, cogs_sum_by_file, request, response, arg, ret>>

\* the variables of the web endpoint and of a lone classifier call
other == <<request, response, arg, ret>>

Init ==
    /\ pdf_paths \in Batches
    /\ d = 0
    /\ pc = "for"
    /\ tokens = <<>>
    /\ i = 0
    /\ rows = <<>>
    /\ scan = <<>>
    /\ all_rows = <<>>
    /\ totals_rows = <<>>
    /\ log_rows = <<>>
    /\ cogs_sum_by_file = <<>>
    /\ request = None /\ response = None
    /\ arg = None /\ ret = None

pdf == pdf_paths[d + 1]

\* the records of the try block
OkTotals(f) ==
    [File_Name |-> f.name,
     Total_USD_Extracted |-> extract_total_usd(FullText(f.tokens))]

\* a log record with the two counts swapped
OkLogSwapped(f, nrows) ==
    [File |-> f.name, Tokens |-> Some(nrows), Rows |-> Some(Len(f.tokens)),
     Status |-> "OK", Error |-> ""]

OkLog(f, nrows) ==
    [File |-> f.name, Tokens |-> Some(Len(f.tokens)), Rows |-> Some(nrows),
     Status |-> "OK", Error |-> ""]

\* the records of the except block; "" in a count column is None
ErrTotals(f) == [File_Name |-> f.name, Total_USD_Extracted |-> None]

ErrLog(f, msg) ==
    [File |-> f.name, Tokens |-> None, Rows |-> None,
     Status |-> "ERROR", Error |-> msg]

\* an except branch that keeps the rows found before the error
ExceptKeepsRows(msg) ==
    /\ totals_rows' = Append(totals_rows, ErrTotals(pdf))
    /\ log_rows' = Append(log_rows, ErrLog(pdf, msg))
    /\ d' = d + 1
    /\ pc' = "for"
    /\ all_rows' = all_rows \o rows
    /\ UNCHANGED <<pdf_paths, cogs_sum_by_file>>

\* the except branch of the for loop body
Except(msg) ==
    /\ totals_rows' = Append(totals_rows, ErrTotals(pdf))
    /\ log_rows' = Append(log_rows, ErrLog(pdf, msg))
    /\ d' = d + 1
    /\ pc' = "for"
    /\ UNCHANGED <<pdf_paths, all_rows, cogs_sum_by_file>>

\* extract_tokens_and_text raises
ExtractRaises ==
    /\ pc = "for" /\ d < Len(pdf_paths)
    /\ pdf.err # ""
    /\ Except(pdf.err)
    /\ UNCHANGED <<tokens, i, rows, scan>>
    /\ UNCHANGED other

\* an entry of parse_pdf_tokens whose row list outlives the call
ParseStartKeepsRows ==
    /\ pc = "for" /\ d < Len(pdf_paths)
    /\ pdf.err = ""
    /\ tokens' = stop_at_total_usd(pdf.tokens)
    /\ i' = 0
    /\ rows' = rows
    /\ scan' = <<>>
    /\ pc' = "while"
    /\ UNCHANGED <<pdf_paths, d, all_rows, totals_rows, log_rows, cogs_sum_by_file>>
    /\ UNCHANGED other

\* extract_tokens_and_text returns; parse_pdf_tokens is entered
ParseStart ==
    /\ pc = "for" /\ d < Len(pdf_paths)
    /\ pdf.err = ""
    /\ tokens' = stop_at_total_usd(pdf.tokens)
    /\ i' = 0
    /\ rows' = <<>>
    /\ scan' = <<>>
    /\ pc' = "while"
    /\ UNCHANGED <<pdf_paths, d, all_rows, totals_rows, log_rows, cogs_sum_by_file>>
    /\ UNCHANGED other

\* a while iteration at a token that starts no row
SkipToken ==
    /\ pc = "while" /\ i < Len(tokens)
    /\ ~is_row_start(tokens, i)
    /\ i' = i + 1
    /\ UNCHANGED <<pdf_paths, d, pc, tokens, rows, scan, all_rows, totals_rows,
                   log_rows, cogs_sum_by_file>>
    /\ UNCHANGED other

\* a row iteration that moves the cursor on by one token
ScanRowStepOne ==
    /\ pc = "while" /\ i < Len(tokens)
    /\ is_row_start(tokens, i)
    /\ LET r == RowAt(tokens, i, pdf.name) IN
        /\ r.err = ""
        /\ rows' = rows \o r.row
        /\ scan' = Append(scan, r)
        /\ i' = i + 1
    /\ UNCHANGED <<pdf_paths, d, pc, tokens, all_rows, totals_rows, log_rows,
                   cogs_sum_by_file>>
    /\ UNCHANGED other

\* a while iteration at a row start
ScanRow ==
    /\ pc = "while" /\ i < Len(tokens)
    /\ is_row_start(tokens, i)
    /\ LET r == RowAt(tokens, i, pdf.name) IN
        /\ r.err = ""
        /\ rows' = rows \o r.row
        /\ scan' = Append(scan, r)
        /\ i' = r.row_end
    /\ UNCHANGED <<pdf_paths, d, pc, tokens, all_rows, totals_rows, log_rows,
                   cogs_sum_by_file>>
    /\ UNCHANGED other

\* a while iteration at a row start raises
RowRaises ==
    /\ pc = "while" /\ i < Len(tokens)
    /\ is_row_start(tokens, i)
    /\ LET r == RowAt(tokens, i, pdf.name) IN
        /\ r.err # ""
        /\ Except(r.err)
    /\ UNCHANGED <<tokens, i, rows, scan>>
    /\ UNCHANGED other

\* parse_pdf_tokens returns; the rest of the try block
ParseReturns ==
    /\ pc = "while" /\ i >= Len(tokens)
    /\ all_rows' = all_rows \o rows
    /\ totals_rows' = Append(totals_rows, OkTotals(pdf))
    /\ log_rows' = Append(log_rows, OkLog(pdf, Len(rows)))
    /\ d' = d + 1
    /\ pc' = "for"
    /\ UNCHANGED <<pdf_paths, tokens, i, rows, scan, cogs_sum_by_file>>
    /\ UNCHANGED other

RECURSIVE SumCost(_, _)
SumCost(rs, fn) ==
    IF Len(rs) = 0 THEN 0
    ELSE SumCost(SubSeq(rs, 1, Len(rs) - 1), fn)
            + (IF rs[Len(rs)].File_Name = fn THEN rs[Len(rs)].Cost ELSE 0)

\* "Sum COGS by file"
CogsSumByFile(rs) ==
    [fn \in {rs[k].File_Name : k \in 1..Len(rs)} |-> SumCost(rs, fn)]

\* the totals fields with a tolerance that includes 0.01
WithTotalsInclusive(t, sums) ==
    LET fn == t.File_Name
        total == t.Total_USD_Extracted
        cogs_sum == IF fn \in DOMAIN sums THEN sums[fn] ELSE 0
        diff == cogs_sum - total[1]
        abs == IF diff < 0 THEN -diff ELSE diff
    IN  [File_Name |-> fn, Total_USD_Extracted |-> total,
         COGS_Sum |-> Some(cogs_sum),
         Diff |-> IF total = None THEN None ELSE Some(diff),
         Match |-> IF total = None THEN "CHECK"
                   ELSE IF abs * 100 <= MoneyScale THEN "OK" ELSE "CHECK"]

\* "Add computed totals fields" for one totals row
WithTotals(t, sums) ==
    LET fn == t.File_Name
        total == t.Total_USD_Extracted
        cogs_sum == IF fn \in DOMAIN sums THEN sums[fn] ELSE 0
        diff == cogs_sum - total[1]
        abs == IF diff < 0 THEN -diff ELSE diff
    IN  [File_Name |-> fn, Total_USD_Extracted |-> total,
         COGS_Sum |-> Some(cogs_sum),
         Diff |-> IF total = None THEN None ELSE Some(diff),
         Match |-> IF total = None THEN "CHECK"
                   ELSE IF abs * 100 < MoneyScale THEN "OK" ELSE "CHECK"]

\* the for loop is over: aggregation and the computed totals fields
Reconcile ==
    /\ pc = "for" /\ d = Len(pdf_paths)
    /\ cogs_sum_by_file' = CogsSumByFile(all_rows)
    /\ totals_rows' = [k \in 1..Len(totals_rows) |->
                          WithTotals(totals_rows[k], CogsSumByFile(all_rows))]
    /\ pc' = "done"
    /\ UNCHANGED <<pdf_paths, d, tokens, i, rows, scan, all_rows, log_rows>>
    /\ UNCHANGED other

Next ==
    \/ ExtractRaises
    \/ ParseStart
    \/ SkipToken
    \/ ScanRow
    \/ RowRaises
    \/ ParseReturns
    \/ Reconcile

Spec == Init /\ [][Next]_vars

(***************************************************************************)
(* convert_pdfs_to_json as a function of its argument                      *)
(***************************************************************************)
\* the for loop body for one file: what it appends to the three lists
TryDoc(f) ==
    LET r == IF f.err # "" THEN [err |-> f.err, rows |-> <<>>]
             ELSE parse_pdf_tokens(f.tokens, f.name)
    IN  IF r.err # ""
        THEN [rows |-> <<>>, totals |-> ErrTotals(f), log |-> ErrLog(f, r.err)]
        ELSE [rows |-> r.rows, totals |-> OkTotals(f), log |-> OkLog(f, Len(r.rows))]

RECURSIVE ForLoop(_)
ForLoop(paths) ==
    IF Len(paths) = 0 THEN [rows |-> <<>>, totals |-> <<>>, logs |-> <<>>]
    ELSE LET acc == ForLoop(SubSeq(paths, 1, Len(paths) - 1))
             r == TryDoc(paths[Len(paths)])
         IN  [rows |-> acc.rows \o r.rows,
              totals |-> Append(acc.totals, r.totals),
              logs |-> Append(acc.logs, r.log)]

convert_pdfs_to_json(paths) ==
    LET acc == ForLoop(paths) IN
    [COGS |-> acc.rows,
     InvoiceTotals |-> [k \in 1..Len(acc.totals) |->
                           WithTotals(acc.totals[k], CogsSumByFile(acc.rows))],
     Log |-> acc.logs]

(***************************************************************************)
(* The web endpoint (app.py)                                               *)
(***************************************************************************)
\* str.strip() of a header or environment value
RECURSIVE WsStrip(_)
WsStrip(s) ==
    IF Len(s) > 0 /\ s[1] = " " THEN WsStrip(Tail(s))
    ELSE IF Len(s) > 0 /\ s[Len(s)] = " " THEN WsStrip(SubSeq(s, 1, Len(s) - 1))
    ELSE s

\* a or b on optional strings
Or(a, b) == IF a # None /\ a[1] # <<>> THEN a[1] ELSE b

EndsWith(s, p) == Len(s) >= Len(p) /\ SubSeq(s, Len(s) - Len(p) + 1, Len(s)) = p

get_api_key(env) == WsStrip(Or(env.API_KEY, Or(env.api, <<>>)))

\* the response of GET /
health(req) ==
    LET k == get_api_key(req.env) IN
    [code |-> 200, status |-> "ok", has_api_key |-> (k # <<>>),
     api_key_length |-> Len(k)]

\* the single-document converter app.py imports from web: a frame of the rows
\* of the document, None when the document cannot be read or parsed
DataFrame(r) ==
    IF r.err # "" THEN None
    ELSE Some([columns |-> <<"File Name", "DateSerial", "Order #", "Qty",
                             "Cost", "Cost_NL">>,
               rows |-> r.rows])

convert_pdf_to_dataframe(f) ==
    DataFrame(IF f.err # "" THEN [err |-> f.err, rows |-> <<>>]
              ELSE parse_pdf_tokens(f.tokens, f.name))

ErrorResponse(code, msg) ==
    [code |-> code, error |-> msg, debug |-> None, status |-> "",
     columns |-> None, rows |-> None]

\* the end of convert_api: the response for the frame df
FrameResponse(df) ==
    IF df = None \/ Len(df[1].rows) = 0
    THEN ErrorResponse(500, "Conversion failed / no rows extracted")
    ELSE [code |-> 200, error |-> "", debug |-> None,
          status |-> "success", columns |-> Some(df[1].columns),
          rows |-> Some(df[1].rows)]

\* the response of POST /api/convert
convert_api(req) ==
    LET api_key == get_api_key(req.env)
        sent_key == WsStrip(Or(req.headers.X_API_KEY, <<>>))
    IN
    IF api_key = <<>> THEN ErrorResponse(500, "Server API_KEY not configured")
    ELSE IF sent_key # api_key
    THEN [ErrorResponse(401, "Unauthorized") EXCEPT
            !.debug = Some([sent_key_length |-> Len(sent_key),
                            server_key_length |-> Len(api_key),
                            header_present |-> (req.headers.X_API_KEY # None)])]
    ELSE IF req.files.file = None THEN ErrorResponse(400, "No file uploaded")
    ELSE LET file == req.files.file[1] IN
         IF ~EndsWith(Lower(file.filename), <<".","p","d","f">>)
         THEN ErrorResponse(400, "Only PDF files are supported")
         ELSE FrameResponse(convert_pdf_to_dataframe(file.content))

\* requests
K_KEY == <<"k","e","y">>
K_PADDED == <<" ","k","e","y"," ">>
K_OTHER == <<"a","p","i","k">>

Envs ==
    {[API_KEY |-> a, api |-> b] :
        a \in {None, Some(<<>>), Some(K_KEY), Some(K_PADDED)},
        b \in {None, Some(K_OTHER)}}

SentKeys == {None, Some(K_KEY), Some(K_PADDED), Some(K_OTHER)}

FileNames ==
    { <<"i","n","v",".","p","d","f">>, <<"I","N","V",".","P","D","F">>,
      <<"i","n","v",".","t","x","t">> }

\* what the saved upload holds: rows, no row, nothing, unreadable, a bad date
Contents ==
    { File("tmp", "inv.pdf", "", GoodHead \o <<T_Q7, T_CANADA, T_P4999>>),
      File("tmp", "inv.pdf", "", GoodHead \o <<T_CANADA>>),
      File("tmp", "inv.pdf", "", <<T_NOISE>>),
      File("tmp", "inv.pdf", "", <<>>),
      File("tmp", "inv.pdf", "No /Root object", <<>>),
      File("tmp", "inv.pdf", "", <<T_ORDER, T_TXN, T_DATE_BAD, T_CANADA, T_P10>>) }

Uploads ==
    {None} \cup {Some([filename |-> fn, content |-> c]) : fn \in FileNames, c \in Contents}

Requests ==
    {[route |-> r, env |-> e, headers |-> [X_API_KEY |-> k], files |-> [file |-> u]] :
        r \in {"/", "/api/convert"}, e \in Envs, k \in SentKeys, u \in Uploads}

ApiInit ==
    /\ request \in {Some(r) : r \in Requests}
    /\ response = None
    /\ pdf_paths = <<>> /\ d = 0 /\ pc = "serve"
    /\ tokens = <<>> /\ i = 0 /\ rows = <<>> /\ scan = <<>>
    /\ all_rows = <<>> /\ totals_rows = <<>> /\ log_rows = <<>>
    /\ cogs_sum_by_file = <<>>
    /\ arg = None /\ ret = None

Health ==
    /\ response = None
    /\ request[1].route = "/"
    /\ response' = Some(health(request[1]))
    /\ UNCHANGED <<pdf_paths, d, pc, tokens, i, rows, scan, all_rows,
                   totals_rows, log_rows, cogs_sum_by_file, request, arg, ret>>

ConvertApi ==
    /\ response = None
    /\ request[1].route = "/api/convert"
    /\ response' = Some(convert_api(request[1]))
    /\ UNCHANGED <<pdf_paths, d, pc, tokens, i, rows, scan, all_rows,
                   totals_rows, log_rows, cogs_sum_by_file, request, arg, ret>>

ApiNext == Health \/ ConvertApi

ApiSpec == ApiInit /\ [][ApiNext]_vars

(***************************************************************************)
(* A lone call of a token classifier                                       *)
(***************************************************************************)
Zeros(k) == [m \in 1..k |-> "0"]

Years == {1899, 1900, 1904, 1999, 2000, 2023, 2024}

DateTok(y, m, dd) == IntStr(y) \o <<"/">> \o IntStr(m) \o <<"/">> \o IntStr(dd)

\* the same date with month and day written in two digits
DateTokPadded(y, m, dd) ==
    IntStr(y) \o <<"/">> \o (IF m < 10 THEN <<"0">> ELSE <<>>) \o IntStr(m)
        \o <<"/">> \o (IF dd < 10 THEN <<"0">> ELSE <<>>) \o IntStr(dd)

DateTokens ==
    {DateTok(y, m, dd) : y \in Years, m \in 0..13, dd \in 0..32}
        \cup {DateTokPadded(y, m, dd) : y \in Years, m \in 0..13, dd \in 0..32}

IntParts ==
    {IntStr(v) : v \in (0..12) \cup (98..101) \cup (998..1001) \cup (9998..10001)
                         \cup (99999..100001)}
        \cup {Zeros(k) \o IntStr(v) : k \in 1..3, v \in {5, 10, 42}}
        \cup {T_ORDER, T_ORDER \o <<"1">>, Zeros(8) \o <<"1","0">>, <<>>}

Fracs ==
    { <<>>, <<".">>, <<".","0">>, <<".","5">>, <<".","0","0">>, <<".","0","1">>,
      <<".","9","9">>, <<".","1","2","3">>, <<"_","2">> }

PriceTokens ==
    {a \o ip \o f \o b :
        ip \in IntParts, f \in Fracs,
        a \in {<<>>, <<"(">>, <<"$">>, <<"-">>}, b \in {<<>>, <<")">>, <<",">>}}

TokInit ==
    /\ arg \in {Some(t) : t \in DateTokens \cup PriceTokens}
    /\ ret = None
    /\ pdf_paths = <<>> /\ d = 0 /\ pc = "call"
    /\ tokens = <<>> /\ i = 0 /\ rows = <<>> /\ scan = <<>>
    /\ all_rows = <<>> /\ totals_rows = <<>> /\ log_rows = <<>>
    /\ cogs_sum_by_file = <<>>
    /\ request = None /\ response = None

\* looks_like_price(arg)
CallLooksLikePrice ==
    /\ arg # None /\ ret = None
    /\ ret' = Some([fn |-> "looks_like_price", err |-> "",
                    val |-> Some(looks_like_price(arg[1]))])
    /\ UNCHANGED <<pdf_paths, d, pc, tokens, i, rows, scan, all_rows,
                   totals_rows, log_rows, cogs_sum_by_file, request, response, arg>>

\* the date serial of the cleaned token arg, when it has the shape of a date
CallDateSerial ==
    /\ arg # None /\ ret = None
    /\ DATE_RE(clean(arg[1]))
    /\ ret' = Some([fn |-> "date_serial",
                    err |-> date_serial_of(clean(arg[1])).err,
                    val |-> date_serial_of(clean(arg[1])).val])
    /\ UNCHANGED <<pdf_paths, d, pc, tokens, i, rows, scan, all_rows,
                   totals_rows, log_rows, cogs_sum_by_file, request, response, arg>>

TokNext == CallLooksLikePrice \/ CallDateSerial

TokSpec == TokInit /\ [][TokNext]_vars

(***************************************************************************)
(* Properties                                                              *)
(***************************************************************************)
\* a country anchor at index k, as the classifier is specified
AnchorAt(ts, k) ==
    LET t == Lower(clean(Tok(ts, k))) IN
    \/ t \in SINGLE_COUNTRIES
    \/ /\ t = <<"u","n","i","t","e","d">>
       /\ k + 1 < Len(ts)
       /\ Lower(clean(Tok(ts, k + 1))) = <<"s","t","a","t","e","s">>

\* the last token of the anchor match at k
AnchorEnd(ts, k) ==
    IF Lower(clean(Tok(ts, k))) = <<"u","n","i","t","e","d">> THEN k + 1 ELSE k

\* the anchors of the window of scan entry e (its leading triplet excluded)
Anchors(ts, e) == {k \in (e.start + 3)..(e.row_end - 1) : AnchorAt(ts, k)}

MinOf(S) == CHOOSE x \in S : \A y \in S : x <= y
MaxOf(S) == CHOOSE x \in S : \A y \in S : x >= y

\* the plausible prices after the first anchor of e and before its row end
PricesAfterAnchor(ts, e) ==
    {j \in (AnchorEnd(ts, MinOf(Anchors(ts, e))) + 1)..(e.row_end - 1) :
        looks_like_price(Tok(ts, j))}

\* a bare quantity: the cleaned token is purely digits with value in 1..999
BareQty(tok) ==
    LET t == clean(tok) IN
    Len(t) > 0 /\ AllDigits(t) /\ IntVal(t) >= 1 /\ IntVal(t) <= 999

\* the bare quantities between the row start of e and its first anchor
QtysBeforeAnchor(ts, e) ==
    {j \in (e.start + 1)..(MinOf(Anchors(ts, e)) - 1) : BareQty(Tok(ts, j))}

Emitted == {x \in 1..Len(scan) : scan[x].row # None}

\* a file that makes the for loop body raise
Fails(f) == f.err # "" \/ parse_pdf_tokens(f.tokens, f.name).err # ""

\* C1: row extraction is never fatal: a file whose text extraction succeeded
\* never gets a Log Record with status ERROR, whatever its row candidates are
C1_RowsNeverFatal ==
    \A k \in 1..Len(log_rows) :
        pdf_paths[k].err = "" => log_rows[k].Status = "OK"

\* C2: a row is emitted only if its window holds a country anchor and a
\* plausible price lies after the anchor match and before the row end
C2_RowNeedsAnchorAndPrice ==
    \A x \in Emitted :
        /\ Anchors(tokens, scan[x]) # {}
        /\ PricesAfterAnchor(tokens, scan[x]) # {}

\* C2 witness: one document with an emitted row and a row dropped although
\* its triplet is valid and its window has an anchor (no price follows it)
C2_Witness ==
    /\ Emitted # {}
    /\ \E x \in 1..Len(scan) :
        /\ scan[x].row = None
        /\ Anchors(tokens, scan[x]) # {}
        /\ PricesAfterAnchor(tokens, scan[x]) = {}
        /\ IntVal(clean(Tok(tokens, scan[x].start + 1))) # 0

\* C3: the cost of an emitted row is the value of the last plausible price
\* strictly after the anchor match and strictly before the row end
C3_LastPriceWins ==
    \A x \in Emitted :
        /\ Anchors(tokens, scan[x]) # {}
        /\ PricesAfterAnchor(tokens, scan[x]) # {}
        /\ scan[x].row[1].Cost =
              FloatVal(clean(Tok(tokens, MaxOf(PricesAfterAnchor(tokens, scan[x])))))

\* C3 witness: an emitted row with two plausible prices of different value
\* after a two-token anchor
C3_Witness ==
    \E x \in Emitted :
        LET P == PricesAfterAnchor(tokens, scan[x]) IN
        /\ AnchorEnd(tokens, MinOf(Anchors(tokens, scan[x])))
              = MinOf(Anchors(tokens, scan[x])) + 1
        /\ \E j1 \in P, j2 \in P :
              FloatVal(clean(Tok(tokens, j1))) # FloatVal(clean(Tok(tokens, j2)))

\* C4: the quantity of an emitted row is the bare quantity nearest before the
\* first anchor of the row, and is absent iff there is none between the row
\* start and that anchor
C4_NearestQuantity ==
    \A x \in Emitted :
        LET Q == QtysBeforeAnchor(tokens, scan[x]) IN
        /\ Anchors(tokens, scan[x]) # {}
        /\ scan[x].country_pos = MinOf(Anchors(tokens, scan[x]))
        /\ (Q = {}) <=> (scan[x].row[1].Qty = None)
        /\ Q # {} => scan[x].row[1].Qty = Some(IntVal(clean(Tok(tokens, MaxOf(Q)))))

\* C4 witness: an emitted row with two different bare quantities after the
\* triplet and before the first anchor
C4_Witness ==
    \E x \in Emitted :
        LET Q == QtysBeforeAnchor(tokens, scan[x])
        IN  /\ \E j1 \in Q, j2 \in Q :
                /\ j1 > scan[x].start + 2 /\ j2 > scan[x].start + 2
                /\ IntVal(clean(Tok(tokens, j1))) # IntVal(clean(Tok(tokens, j2)))
            /\ scan[x].row[1].Qty # None

Abs(x) == IF x < 0 THEN -x ELSE x

\* C5: the verdict of a Totals Record is OK iff an extracted total exists and
\* |summed cost - extracted total| < 0.01; without an extracted total the
\* verdict is the manual-check value and the difference is absent
C5_Verdict ==
    pc = "done" =>
        \A k \in 1..Len(totals_rows) :
            LET t == totals_rows[k] IN
            /\ (t.Match = "OK") <=>
                  /\ t.Total_USD_Extracted # None
                  /\ Abs(t.COGS_Sum[1] - t.Total_USD_Extracted[1]) * 100 < MoneyScale
            /\ t.Match \in {"OK", "CHECK"}
            /\ t.Total_USD_Extracted = None => t.Match = "CHECK" /\ t.Diff = None
            /\ t.Total_USD_Extracted # None =>
                  t.Diff = Some(t.COGS_Sum[1] - t.Total_USD_Extracted[1])

\* C5 witness: a finished batch with a record within tolerance but not equal,
\* a record whose difference is exactly 0.01, and a record without a total
\* whose summed cost is not zero
C5_Witness ==
    /\ pc = "done"
    /\ \E k \in 1..Len(totals_rows) :
          /\ totals_rows[k].Match = "OK"
          /\ totals_rows[k].Diff \notin {None, Some(0)}
    /\ \E k \in 1..Len(totals_rows) :
          /\ totals_rows[k].Match = "CHECK"
          /\ totals_rows[k].Diff = Some(MoneyScale \div 100)
    /\ \E k \in 1..Len(totals_rows) :
          /\ totals_rows[k].Total_USD_Extracted = None
          /\ totals_rows[k].COGS_Sum # Some(0)

RECURSIVE SumAll(_)
SumAll(rs) == IF Len(rs) = 0 THEN 0 ELSE rs[1].Cost + SumAll(Tail(rs))

\* the rows a file yields from its own tokens
OwnRows(f) == IF Fails(f) THEN <<>> ELSE parse_pdf_tokens(f.tokens, f.name).rows

\* C6: after a batch, the summed cost of each file's Totals Record is the sum
\* of the costs of the rows extracted from that file's own tokens, also when
\* several files of the batch have the same name, and 0 for a file without rows
C6_SumIsPerDocument ==
    pc = "done" =>
        \A k \in 1..Len(pdf_paths) :
            totals_rows[k].COGS_Sum = Some(SumAll(OwnRows(pdf_paths[k])))

\* the subsequence of s at the positions outside the set bad
RECURSIVE Without(_, _)
Without(s, bad) ==
    IF Len(s) = 0 THEN <<>>
    ELSE Without(SubSeq(s, 1, Len(s) - 1), bad)
            \o (IF Len(s) \in bad THEN <<>> ELSE <<s[Len(s)]>>)

\* C7: a failing file never aborts the batch: it gets an ERROR Log Record
\* with the message, every file is still processed, and the rows, Totals
\* Records and Log Records of the other files are those of the batch without
\* the failing files
C7_BatchIsolation ==
    pc = "done" =>
        LET bad == {k \in 1..Len(pdf_paths) : Fails(pdf_paths[k])}
            alone == convert_pdfs_to_json(Without(pdf_paths, bad))
        IN  /\ Len(log_rows) = Len(pdf_paths)
            /\ Len(totals_rows) = Len(pdf_paths)
            /\ \A k \in bad :
                  /\ log_rows[k].Status = "ERROR"
                  /\ log_rows[k].Error # ""
                  /\ pdf_paths[k].err # "" => log_rows[k].Error = pdf_paths[k].err
            /\ all_rows = alone.COGS
            /\ Without(totals_rows, bad) = alone.InvoiceTotals
            /\ Without(log_rows, bad) = alone.Log

\* C7 witness: a finished batch in which a file whose extraction fails and a
\* file whose parsing fails after a good row both precede a file with rows
C7_Witness ==
    /\ pc = "done"
    /\ \E a \in 1..Len(pdf_paths), b \in 1..Len(pdf_paths), c \in 1..Len(pdf_paths) :
          /\ a < c /\ b < c
          /\ pdf_paths[a].err # ""
          /\ pdf_paths[b].err = "" /\ Fails(pdf_paths[b])
          /\ log_rows[c].Status = "OK" /\ log_rows[c].Rows # Some(0)

\* C8: on a document-level error the Totals Record is null-valued: extracted
\* total, summed cost and difference are all absent
C8_ErrorTotalsAreNull ==
    pc = "done" =>
        \A k \in 1..Len(log_rows) :
            log_rows[k].Status = "ERROR" =>
                /\ totals_rows[k].Total_USD_Extracted = None
                /\ totals_rows[k].COGS_Sum = None
                /\ totals_rows[k].Diff = None

RECURSIVE RowsLogged(_)
RowsLogged(logs) ==
    IF Len(logs) = 0 THEN 0
    ELSE RowsLogged(SubSeq(logs, 1, Len(logs) - 1))
            + (IF logs[Len(logs)].Status = "OK" THEN logs[Len(logs)].Rows[1] ELSE 0)

\* C9: whenever the for loop has handled d files there are exactly d Totals
\* Records and d Log Records, in input order, and the row table has grown by
\* the row counts of the OK records (so each count is what that file
\* contributed); after the batch a Log status is OK exactly when neither
\* tokenization nor row extraction raised, and its row count is then the
\* number of rows of that file
C9_OneRecordPerDocument ==
    pc \in {"for", "done"} =>
        /\ Len(totals_rows) = d
        /\ Len(log_rows) = d
        /\ \A k \in 1..d :
              /\ totals_rows[k].File_Name = pdf_paths[k].name
              /\ log_rows[k].File = pdf_paths[k].name
              /\ log_rows[k].Status \in {"OK", "ERROR"}
        /\ Len(all_rows) = RowsLogged(log_rows)
        /\ pc = "done" =>
              /\ d = Len(pdf_paths)
              /\ \A k \in 1..d :
                    LET own == IF pdf_paths[k].err # ""
                               THEN [err |-> pdf_paths[k].err, rows |-> <<>>]
                               ELSE parse_pdf_tokens(pdf_paths[k].tokens,
                                                     pdf_paths[k].name)
                    IN  /\ (log_rows[k].Status = "OK") <=> (own.err = "")
                        /\ own.err = "" => log_rows[k].Rows = Some(Len(own.rows))

\* C9 witness: a finished batch of three files mixing a failure, a file with
\* rows and a file of a different token count
C9_Witness ==
    /\ pc = "done"
    /\ Len(pdf_paths) = MaxDocs
    /\ \E a \in 1..Len(log_rows), b \in 1..Len(log_rows) :
          /\ log_rows[a].Status = "ERROR"
          /\ log_rows[b].Status = "OK"
          /\ log_rows[b].Rows # Some(0)
          /\ log_rows[b].Rows # log_rows[b].Tokens

\* the marker positions (0-based) of the token list of the current file
Markers == {k \in 0..(Len(pdf.tokens) - 1) : IsTotalMarker(Tok(pdf.tokens, k))}

\* the index the token list is cut at
CutAt == IF Markers = {} THEN Len(pdf.tokens) ELSE MinOf(Markers)

\* C10: the token list is cut at the first summary marker: no row has its row
\* start, anchor, quantity or cost token (all inside its window) at or after
\* that index, and the rows are those of the prefix before the marker alone
C10_Truncation ==
    pc = "while" =>
        /\ tokens = SubSeq(pdf.tokens, 1, CutAt)
        /\ i <= CutAt
        /\ \A x \in 1..Len(scan) :
              /\ scan[x].start < CutAt
              /\ scan[x].row_end <= CutAt
              /\ scan[x].country_pos < CutAt
              /\ scan[x].country_end < CutAt
        /\ i >= Len(tokens) =>
              rows = ParseLoop(SubSeq(pdf.tokens, 1, CutAt), 0, <<>>, pdf.name).rows

\* C10 witness: parsing is over for a file with a marker; a row was emitted,
\* and scanning the tokens after the marker too would have given other rows
C10_Witness ==
    /\ pc = "while" /\ i >= Len(tokens)
    /\ Markers # {}
    /\ Emitted # {}
    /\ LET whole == ParseLoop(pdf.tokens, 0, <<>>, pdf.name) IN
          whole.err = "" /\ whole.rows # rows


\* the documents of the batch before the current one that are the current one
Earlier == {a \in 1..d : pdf_paths[a] = pdf}

\* C11: a call of parse_pdf_tokens works on its own truncated copy of the
\* caller's tokens, and what it returns is the function of its arguments
\* whatever the calls before it left behind: a document met again in a batch
\* gets the log record it got before.
C11_Idempotent ==
    /\ pc = "while" =>
          /\ Len(tokens) <= Len(pdf.tokens)
          /\ tokens = SubSeq(pdf.tokens, 1, Len(tokens))
    /\ (pc = "while" /\ i >= Len(tokens)) =>
          LET r == parse_pdf_tokens(pdf.tokens, pdf.name) IN
          /\ r.err = ""
          /\ rows = r.rows
          /\ \A a \in Earlier : log_rows[a] = OkLog(pdf, Len(rows))

\* the second call on a document of the batch returns, with a row
C11_Witness ==
    /\ pc = "while" /\ i >= Len(tokens)
    /\ Earlier # {}
    /\ rows # <<>>


\* the request reaches the converter: the key matches and a PDF is uploaded
Converted(req) ==
    /\ req.route = "/api/convert"
    /\ get_api_key(req.env) # <<>>
    /\ WsStrip(Or(req.headers.X_API_KEY, <<>>)) = get_api_key(req.env)
    /\ req.files.file # None
    /\ EndsWith(Lower(req.files.file[1].filename), <<".","p","d","f">>)

\* the same request with another document uploaded under the same name
WithContent(req, c) ==
    [req EXCEPT !.files.file = Some([filename |-> req.files.file[1].filename,
                                     content |-> c])]

\* the documents that are converted and hold no row
NoRowContents ==
    {c \in Contents : c.err = "" /\ parse_pdf_tokens(c.tokens, c.name) = [err |-> "", rows |-> <<>>]}

LeapYear(y) == y % 400 = 0 \/ (y % 4 = 0 /\ y % 100 # 0)

MonthLen(y, m) ==
    IF m = 2 THEN (IF LeapYear(y) THEN 29 ELSE 28)
    ELSE IF m \in {4, 6, 9, 11} THEN 30 ELSE 31

RealDate(y, m, dd) == y >= 1 /\ m \in 1..12 /\ dd >= 1 /\ dd <= MonthLen(y, m)

DayOfYear(y, m, dd) ==
    <<0, 31, 59, 90, 120, 151, 181, 212, 243, 273, 304, 334>>[m] + dd
        + (IF m > 2 /\ LeapYear(y) THEN 1 ELSE 0)

\* days from 1899-12-30 to a date of the year 1899 or later, counted year by year
DaysSinceEpoch(y, m, dd) ==
    365 * (y - 1899) + Cardinality({yy \in 1899..(y - 1) : LeapYear(yy)})
        + DayOfYear(y, m, dd) - DayOfYear(1899, 12, 30)

NextDay(y, m, dd) ==
    IF dd < MonthLen(y, m) THEN DateTok(y, m, dd + 1)
    ELSE IF m < 12 THEN DateTok(y, m + 1, 1)
    ELSE DateTok(y + 1, 1, 1)

\* C13: the serial of a date token that denotes a real calendar date is the
\* number of days from 1899-12-30 to that date (45356 for 2024/3/5, 45306
\* for 2024/1/15), and the serial of the day after it is one more.
C13_DateSerial ==
    (ret # None /\ ret[1].fn = "date_serial") =>
        LET p == SplitSlash(clean(arg[1]))
            y == IntVal(p[1])
            m == IntVal(p[2])
            dd == IntVal(p[3])
        IN  RealDate(y, m, dd) =>
              /\ ret[1].err = ""
              /\ ret[1].val = Some(DaysSinceEpoch(y, m, dd))
              /\ date_serial_of(NextDay(y, m, dd)).val = Some(ret[1].val[1] + 1)
              /\ arg[1] = T_DATE_MAR => ret[1].val = Some(45356)
              /\ arg[1] = T_DATE => ret[1].val = Some(45306)

\* the serial of 2024/3/5 has been computed
C13_Witness ==
    /\ ret # None /\ ret[1].fn = "date_serial"
    /\ arg[1] = T_DATE_MAR
    /\ ret[1].val = Some(45356)

\* the row starts of the current document, so far, whose window holds an
\* anchor and a plausible price after the anchor's match
Complete ==
    {x \in 1..Len(scan) :
        IF Anchors(tokens, scan[x]) = {} THEN FALSE
        ELSE PricesAfterAnchor(tokens, scan[x]) # {}}

\* C14: every row start whose window holds an anchor followed by a plausible
\* price emits a row, and the row's order number is the integer value of the
\* 4-digit transaction token.
C14_Completeness ==
    \A x \in Complete :
        /\ scan[x].row # None
        /\ scan[x].row[1].Order = IntVal(clean(Tok(tokens, scan[x].start + 1)))

\* a step of the program can be taken exactly when it is not done: in every
\* other state the guard of one branch of the for loop or of the while loop
\* holds
NoStall ==
    /\ pc \in {"for", "while", "done"}
    /\ pc = "for" => d <= Len(pdf_paths)
    /\ pc = "while" => d < Len(pdf_paths) /\ pdf.err = ""

\* the program runs on until it is done: weak fairness of Next, WF_vars(Next),
\* with ENABLED <<Next>>_vars written out as pc # "done"
FairSpec == Spec /\ ([]<>(pc = "done") \/ []<><<Next>>_vars)

\* one iteration of the while loop moves the cursor forward and not past the end
Advance ==
    (pc = "while" /\ pc' = "while") =>
        /\ i' > i
        /\ i' <= Len(tokens)
        /\ IF is_row_start(tokens, i)
           THEN i' = scan'[Len(scan')].row_end /\ i' >= i + 3
           ELSE i' = i + 1

\* the windows of the row starts met so far follow each other without overlap
Disjoint ==
    /\ pc = "while" => i <= Len(tokens)
    /\ \A x \in 1..Len(scan) :
          /\ scan[x].start + 3 <= scan[x].row_end
          /\ scan[x].row_end <= Len(tokens)
          /\ pc = "while" => scan[x].row_end <= i
          /\ \A y \in 1..Len(scan) : x < y => scan[x].row_end <= scan[y].start

\* C15: every iteration of the row loop moves the cursor forward, by one at
\* a token that starts no row and else to the row end, at least three on, and
\* never past the token count; the windows of the rows are pairwise disjoint;
\* and the loop, once entered, is left.
C15_Progress ==
    /\ [][Advance]_vars
    /\ []Disjoint
    /\ []NoStall
    /\ (pc = "while") ~> (pc # "while")

\* the loop has run to the end over two rows, both emitted
C15_Witness ==
    /\ pc = "while" /\ i >= Len(tokens)
    /\ Len(scan) >= 2
    /\ scan[1].row # None /\ scan[2].row # None
    /\ scan[1].row_end = scan[2].start

\* the row starts of the window of a row start at c, its own triplet excluded
RowStartsAfter(ts, c) ==
    {j \in (c + 3)..(Min(Len(ts), c + RowCap) - 1) : is_row_start(ts, j)}

\* C16: the row end of a row start at c is the first later row start inside
\* min(n, c + 320), else min(n, c + 320); and the anchor match, the quantity
\* token and the cost token of an emitted row lie inside [c, row end).
C16_WindowBounds ==
    \A x \in 1..Len(scan) :
        LET e == scan[x]
            c == e.start
            S == RowStartsAfter(tokens, c)
            W == c..(e.row_end - 1)
        IN
        /\ e.row_end = IF S = {} THEN Min(Len(tokens), c + RowCap) ELSE MinOf(S)
        /\ e.row_end <= c + RowCap
        /\ e.row # None =>
              /\ e.country_pos \in W /\ e.country_end \in W
              /\ \E j \in W :
                    /\ j > e.country_end
                    /\ looks_like_price(Tok(tokens, j))
                    /\ FloatVal(clean(Tok(tokens, j))) = e.row[1].Cost
              /\ e.row[1].Qty # None =>
                    \E j \in W :
                        /\ j > c /\ j < e.country_pos
                        /\ BareQty(Tok(tokens, j))
                        /\ Some(IntVal(clean(Tok(tokens, j)))) = e.row[1].Qty

\* a row is emitted from a window that the cap of 320 tokens cuts short, with
\* tokens of the document left beyond it
C16_Witness ==
    \E x \in Emitted :
        /\ scan[x].row_end = scan[x].start + RowCap
        /\ scan[x].row_end < Len(tokens)
        /\ scan[x].row[1].Qty # None

\* a row of the output is well formed
RowOk(r) ==
    /\ r.Cost > 0 /\ r.Cost <= 100000 * MoneyScale
    /\ r.Order \in 1..9999
    /\ r.DateSerial # 0
    /\ r.Qty = None \/ r.Qty[1] \in 1..999

\* C17: every emitted row has a cost in (0, 100000] that is the value of a
\* token looks_like_price accepts, a date serial, an order number, and a
\* quantity that is absent or in 1..999; the row of a row start without a
\* cost is dropped.
C17_RowInvariant ==
    /\ \A k \in 1..Len(all_rows) : RowOk(all_rows[k])
    /\ \A k \in 1..Len(rows) :
          /\ RowOk(rows[k])
          /\ \E j \in 0..(Len(tokens) - 1) :
                /\ looks_like_price(Tok(tokens, j))
                /\ FloatVal(clean(Tok(tokens, j))) = rows[k].Cost
    /\ \A x \in 1..Len(scan) :
          /\ scan[x].cost = None => scan[x].row = None
          /\ scan[x].row # None =>
                /\ TXN_RE(clean(Tok(tokens, scan[x].start + 1)))
                /\ date_serial_of(clean(Tok(tokens, scan[x].start + 2))).val
                      = Some(scan[x].row[1].DateSerial)

\* a finished run whose document gave a row at the upper end of the cost range
C17_Witness ==
    /\ \E k \in 1..Len(rows) : rows[k].Cost = 100000 * MoneyScale
    /\ pc = "done"

\* a numeral without a sign, a point or a leading zero
Canonical(t) == Len(t) >= 1 /\ AllDigits(t) /\ t[1] # "0"

HasPoint(t) == \E k \in 1..Len(t) : t[k] = "."

\* C18: looks_like_price holds of a token iff its cleaned form is not four
\* digits, has not the shape of a long order id, is digits with at most a
\* fraction of one or two digits, has a value in (0, 100000] and has a point
\* or is at least 10. Hence no integer 1..9 and no 4-digit integer is a
\* price, and the integers 10..999 and 10000..100000 and the decimals in
\* range are.
C18_PriceClassifier ==
    (ret # None /\ ret[1].fn = "looks_like_price") =>
        LET t == clean(arg[1])
            price == ret[1].val[1]
        IN
        /\ price <=>
              /\ ~(Len(t) = 4 /\ AllDigits(t))
              /\ ~ORDER_LONG_RE(t)
              /\ NUM_RE(t)
              /\ FloatVal(t) > 0 /\ FloatVal(t) <= 100000 * MoneyScale
              /\ HasPoint(t) \/ FloatVal(t) >= 10 * MoneyScale
        /\ (Canonical(t) /\ IntVal(t) \in 1..9) => ~price
        /\ (Len(t) = 4 /\ AllDigits(t)) => ~price
        /\ (Canonical(t) /\ IntVal(t) \in (10..999) \cup (10000..100000)) => price
        /\ (NUM_RE(t) /\ HasPoint(t) /\ FloatVal(t) > 0
                /\ FloatVal(t) <= 100000 * MoneyScale) => price

\* the classifier has accepted the largest price, 100000
C18_Witness ==
    /\ ret # None /\ ret[1].fn = "looks_like_price"
    /\ clean(arg[1]) = T_PMAX
    /\ ret[1].val = Some(TRUE)

============================================================================
